---- MODULE Spec2Model ----
(***************************************************************************)
(* Model of the Claude Desktop status monitor of the NVDA global plugin    *)
(* addon/globalPlugins/claudeDesktop.py: the StatusMonitor polling thread, *)
(* its tree scan and classification, the cross-cycle diffing, and the      *)
(* hand-off of announcements to the UI thread through wx.CallAfter.        *)
(*                                                                         *)
(* A Python string is a tuple of one-character strings, so that lower()    *)
(* and the substring test "kw in name" are computed, not assumed.          *)
(***************************************************************************)
EXTENDS Integers, Sequences, FiniteSets, TLC

VARIABLES
    running,        \* StatusMonitor._running
    thread,         \* StatusMonitor._thread: a thread id, or NoThread
    lastStatus,     \* StatusMonitor._last_status
    lastActions,    \* StatusMonitor._last_actions
    wasGenerating,  \* StatusMonitor._was_generating
    pc,             \* position of every polling thread in _monitor_loop, "none"
                    \* for a thread that does not exist or has returned
    ctl,            \* position of the thread that calls start() and stop()
    uiQueue,        \* calls submitted with wx.CallAfter, not yet run
    uiCalls,        \* the speaking and focusing calls the last step made
    snap,           \* the snapshot of the last poll cycle that found the window
    emitted,        \* the announcements requested by the last loop iteration
    op,             \* the operation that took the last step
    fin,            \* input of the pure function under study
    fout,           \* its output
    fpc             \* "input" before it is applied, "done" after

vars == <<running, thread, lastStatus, lastActions, wasGenerating, pc, ctl,
          uiQueue, uiCalls, snap, emitted, op, fin, fout, fpc>>

monitorVars == <<running, thread, lastStatus, lastActions, wasGenerating, pc,
                 ctl, uiQueue, uiCalls, snap, emitted, op>>

funVars == <<fin, fout, fpc>>

----------------------------------------------------------------------------
(* Python values *)

\* None: no tuple of one-character strings equals it.
None == <<"None">>

\* truth value of an Optional[str]: None and "" are false.
Truthy(s) == s # None /\ s # <<>>

UpperAlphabet == <<"A","B","C","D","E","F","G","H","I","J","K","L","M",
                   "N","O","P","Q","R","S","T","U","V","W","X","Y","Z">>

LowerAlphabet == <<"a","b","c","d","e","f","g","h","i","j","k","l","m",
                   "n","o","p","q","r","s","t","u","v","w","x","y","z">>

\* str.lower() on one character.
LowerChar(c) ==
    IF \E i \in 1..Len(UpperAlphabet) : UpperAlphabet[i] = c
    THEN LowerAlphabet[CHOOSE i \in 1..Len(UpperAlphabet) : UpperAlphabet[i] = c]
    ELSE c

\* str.lower()
Lower(s) == [i \in 1..Len(s) |-> LowerChar(s[i])]

\* the Python test "kw in s" on strings
Contains(kw, s) ==
    \E i \in 0..(Len(s) - Len(kw)) : SubSeq(s, i + 1, i + Len(kw)) = kw

\* any(kw in s for kw in kws), kws a sequence of strings
AnyKeywordIn(kws, s) == \E k \in 1..Len(kws) : Contains(kws[k], s)

----------------------------------------------------------------------------
(* Configuration constants of the plugin *)

ACTION_KEYWORDS == <<
    <<"t", "h", "i", "n", "k", "i", "n", "g">>,
    <<"g", "e", "n", "e", "r", "a", "t", "i", "n", "g">>,
    <<"t", "y", "p", "i", "n", "g">>,
    <<"p", "r", "o", "c", "e", "s", "s", "i", "n", "g">>,
    <<"l", "o", "a", "d", "i", "n", "g">>,
    <<"w", "a", "i", "t", "i", "n", "g">>,
    <<"s", "e", "n", "d", "i", "n", "g">>,
    <<"r", "e", "s", "p", "o", "n", "d", "i", "n", "g">>,
    <<"c", "l", "a", "u", "d", "e", " ", "i", "s">>,
    <<"s", "t", "o", "p">>,
    <<"r", "e", "a", "d", "i", "n", "g">>,
    <<"w", "r", "i", "t", "i", "n", "g">>,
    <<"s", "e", "a", "r", "c", "h", "i", "n", "g">>,
    <<"r", "u", "n", "n", "i", "n", "g">>,
    <<"a", "n", "a", "l", "y", "z", "i", "n", "g">>,
    <<"c", "r", "e", "a", "t", "i", "n", "g">>,
    <<"e", "d", "i", "t", "i", "n", "g">>,
    <<"e", "x", "e", "c", "u", "t", "i", "n", "g">>,
    <<"f", "e", "t", "c", "h", "i", "n", "g">>,
    <<"d", "o", "w", "n", "l", "o", "a", "d", "i", "n", "g">>,
    <<"u", "p", "l", "o", "a", "d", "i", "n", "g">> >>

\* the keyword list of _get_current_status
MAIN_STATUS_KEYWORDS == <<
    <<"t", "h", "i", "n", "k", "i", "n", "g">>,
    <<"g", "e", "n", "e", "r", "a", "t", "i", "n", "g">>,
    <<"s", "t", "o", "p">> >>

\* the keyword list of _is_generating
GENERATING_KEYWORDS == <<
    <<"t", "h", "i", "n", "k", "i", "n", "g">>,
    <<"g", "e", "n", "e", "r", "a", "t", "i", "n", "g">>,
    <<"t", "y", "p", "i", "n", "g">>,
    <<"p", "r", "o", "c", "e", "s", "s", "i", "n", "g">>,
    <<"s", "t", "o", "p">> >>


\* max_depth of the status scan started by _find_status_elements
STATUS_MAX_DEPTH == 25

ROLE_PROGRESSBAR == "PROGRESSBAR"
ROLE_ANIMATION == "ANIMATION"
ROLE_STATICTEXT == "STATICTEXT"
ROLE_WINDOW == "WINDOW"

----------------------------------------------------------------------------
(* Names the accessibility tree shows *)

NameThinking == <<"T", "h", "i", "n", "k", "i", "n", "g">>

NameStop == <<"S", "T", "O", "P">>

NameTyping == <<"t", "y", "p", "i", "n", "g">>

NameReading == <<"R", "e", "a", "d", "i", "n", "g">>

NameHi == <<"H", "i">>

NameClaude == <<"C", "l", "a", "u", "d", "e">>

NameEmpty == <<>>

\* what reading elem.name gives when the element has become stale: an exception
RaisesName == <<"raise">>

----------------------------------------------------------------------------
(* The accessibility tree: node 1 is the root, parent[i] < i, and the        *)
(* children of a node are in ascending order of their ids.                   *)

Root == 1

Node(name, role, live, fault) ==
    [name |-> name, role |-> role, live |-> live, fault |-> fault]

TreeShapes(n) ==
    {p \in [1..n -> 0..(n - 1)] : p[1] = 0 /\ \A i \in 2..n : p[i] \in 1..(i - 1)}

Trees(n, kinds) ==
    {[parent |-> p, node |-> nd] : p \in TreeShapes(n), nd \in [1..n -> kinds]}

NodesOf(tree) == DOMAIN tree.parent

\* obj.children, in order
Children(tree, obj) ==
    SelectSeq([i \in 1..Len(tree.parent) |-> i], LAMBDA i : tree.parent[i] = obj)

RECURSIVE Depth(_, _)
\* number of edges between the root and node n
Depth(tree, n) ==
    IF tree.parent[n] = 0 THEN 0 ELSE 1 + Depth(tree, tree.parent[n])

\* "name = obj.name or ''"
NameOrEmpty(name) == IF Truthy(name) THEN name ELSE <<>>

\* the name, role and live-region tests of _traverse_for_status on one node:
\* the node is appended once for every test it passes
MatchesOf(tree, obj) ==
    LET nd == tree.node[obj]
        byKeyword == IF AnyKeywordIn(ACTION_KEYWORDS, Lower(NameOrEmpty(nd.name)))
                     THEN <<obj>> ELSE <<>>
        byRole == IF nd.role \in {ROLE_PROGRESSBAR, ROLE_ANIMATION}
                  THEN <<obj>> ELSE <<>>
        byLive == IF nd.live > 0 THEN <<obj>> ELSE <<>>
    IN  byKeyword \o byRole \o byLive

RECURSIVE TraverseNoCap(_, _, _, _)
RECURSIVE TraverseNoCapChildren(_, _, _, _)
\* _traverse_for_status with the depth test off by one (depth > max_depth + 1)
TraverseNoCap(tree, obj, depth, max_depth) ==
    IF depth > max_depth + 1 THEN <<>>
    ELSE IF tree.node[obj].fault = "name" THEN <<>>
    ELSE IF tree.node[obj].fault = "children" THEN MatchesOf(tree, obj)
    ELSE MatchesOf(tree, obj)
         \o TraverseNoCapChildren(tree, Children(tree, obj), depth + 1, max_depth)

TraverseNoCapChildren(tree, kids, depth, max_depth) ==
    IF kids = <<>> THEN <<>>
    ELSE TraverseNoCap(tree, Head(kids), depth, max_depth)
         \o TraverseNoCapChildren(tree, Tail(kids), depth, max_depth)

RECURSIVE TraverseForStatus(_, _, _, _)
RECURSIVE TraverseChildren(_, _, _, _)
\* _traverse_for_status: the nodes appended to results, in order. A node whose
\* name cannot be read raises before anything is appended for it; a node whose
\* children cannot be read raises after its own matches were appended. Either
\* exception is caught by the call that raised it.
TraverseForStatus(tree, obj, depth, max_depth) ==
    IF depth > max_depth THEN <<>>
    ELSE IF tree.node[obj].fault = "name" THEN <<>>
    ELSE IF tree.node[obj].fault = "children" THEN MatchesOf(tree, obj)
    ELSE MatchesOf(tree, obj)
         \o TraverseChildren(tree, Children(tree, obj), depth + 1, max_depth)

\* "for child in obj.children or []"
TraverseChildren(tree, kids, depth, max_depth) ==
    IF kids = <<>> THEN <<>>
    ELSE TraverseForStatus(tree, Head(kids), depth, max_depth)
         \o TraverseChildren(tree, Tail(kids), depth, max_depth)

\* _find_status_elements
FindStatusElements(tree) == TraverseForStatus(tree, Root, 0, STATUS_MAX_DEPTH)

----------------------------------------------------------------------------
(* Classification *)

Snapshot(main_status, actions) == [mainStatus |-> main_status, actions |-> actions]

IsMainStatusName(name) == AnyKeywordIn(MAIN_STATUS_KEYWORDS, Lower(name))

RECURSIVE ClassifyFrom(_, _, _)
\* the loop of _get_current_status over the names read from the elements
ClassifyFrom(names, main_status, actions) ==
    IF names = <<>> THEN Snapshot(main_status, actions)
    ELSE LET name == Head(names)
         IN  IF name = RaisesName \/ ~Truthy(name)
             THEN ClassifyFrom(Tail(names), main_status, actions)
             ELSE IF IsMainStatusName(name)
             THEN ClassifyFrom(Tail(names), name, actions)
             ELSE ClassifyFrom(Tail(names), main_status, actions \cup {name})

RECURSIVE ClassifyFirstFrom(_, _, _)
\* the loop keeping the first main status and ignoring the later ones
ClassifyFirstFrom(names, main_status, actions) ==
    IF names = <<>> THEN Snapshot(main_status, actions)
    ELSE LET name == Head(names)
         IN  IF name = RaisesName \/ ~Truthy(name)
             THEN ClassifyFirstFrom(Tail(names), main_status, actions)
             ELSE IF IsMainStatusName(name)
             THEN ClassifyFirstFrom(Tail(names),
                                    IF main_status = None THEN name ELSE main_status,
                                    actions)
             ELSE ClassifyFirstFrom(Tail(names), main_status, actions \cup {name})

ClassifyFirstWins(names) == ClassifyFirstFrom(names, None, {})

RECURSIVE ClassifyDemoteFrom(_, _, _)
\* the loop keeping the first main status and filing the later ones as actions
ClassifyDemoteFrom(names, main_status, actions) ==
    IF names = <<>> THEN Snapshot(main_status, actions)
    ELSE LET name == Head(names)
         IN  IF name = RaisesName \/ ~Truthy(name)
             THEN ClassifyDemoteFrom(Tail(names), main_status, actions)
             ELSE IF IsMainStatusName(name) /\ main_status = None
             THEN ClassifyDemoteFrom(Tail(names), name, actions)
             ELSE ClassifyDemoteFrom(Tail(names), main_status, actions \cup {name})

ClassifyDemoteLater(names) == ClassifyDemoteFrom(names, None, {})

RECURSIVE ClassifyNoElseFrom(_, _, _)
\* the loop with actions.add(name) outside the else branch
ClassifyNoElseFrom(names, main_status, actions) ==
    IF names = <<>> THEN Snapshot(main_status, actions)
    ELSE LET name == Head(names)
         IN  IF name = RaisesName \/ ~Truthy(name)
             THEN ClassifyNoElseFrom(Tail(names), main_status, actions)
             ELSE ClassifyNoElseFrom(Tail(names),
                                     IF IsMainStatusName(name) THEN name ELSE main_status,
                                     actions \cup {name})

ClassifyNoElse(names) == ClassifyNoElseFrom(names, None, {})

\* _get_current_status applied to the names of the candidate elements
Classify(names) == ClassifyFrom(names, None, {})

\* the names read from the elements during classification
ElementNames(tree, elems) == [i \in 1..Len(elems) |-> tree.node[elems[i]].name]

\* _get_current_status
GetCurrentStatus(tree) == Classify(ElementNames(tree, FindStatusElements(tree)))

\* _is_generating without the test of the action set
IsGeneratingStatusOnly(status, actions) ==
    Truthy(status) /\ AnyKeywordIn(GENERATING_KEYWORDS, Lower(status))

\* _is_generating
IsGenerating(status, actions) ==
    IF Truthy(status) /\ AnyKeywordIn(GENERATING_KEYWORDS, Lower(status))
    THEN TRUE
    ELSE Cardinality(actions) > 0

----------------------------------------------------------------------------
(* The response focus finder *)

\* default max_depth of _find_and_focus_response
FOCUS_MAX_DEPTH == 15

ROLE_DOCUMENT == "DOCUMENT"
ROLE_EDITABLETEXT == "EDITABLETEXT"
ROLE_GROUPING == "GROUPING"

NameResponse == <<"R", "e", "s", "p", "o", "n", "s", "e">>

NameMessages == <<"M", "e", "s", "s", "a", "g", "e", "s">>

\* the two words of the name test
FOCUS_NAME_KEYWORDS == <<
    <<"m", "e", "s", "s", "a", "g", "e">>,
    <<"r", "e", "s", "p", "o", "n", "s", "e">> >>

\* a node as the focus finder reads it; fault names the call on the node that
\* raises: "none", "navigator" (api.setNavigatorObject) or "speak"
\* (speech.speakObject)
FocusNode(name, role, focusable, fault) ==
    [name |-> name, role |-> role, focusable |-> focusable, fault |-> fault]

FocusCall(call, obj) == [call |-> call, node |-> obj]

NotFound == [found |-> FALSE, calls |-> <<>>]

\* "role in (DOCUMENT, EDITABLETEXT)" and "root.isFocusable"
RoleHit(nd) == nd.role \in {ROLE_DOCUMENT, ROLE_EDITABLETEXT} /\ nd.focusable

\* '"message" in name.lower() or "response" in name.lower()' and
\* "root.isFocusable"
NameHit(nd) ==
    AnyKeywordIn(FOCUS_NAME_KEYWORDS, Lower(NameOrEmpty(nd.name))) /\ nd.focusable

\* setFocus, api.setNavigatorObject, speech.speakObject and "return True" on
\* one node: the calls that were made, and whether True was returned. A call
\* that raises ends the node in the except clause, which returns False.
FocusOn(tree, obj) ==
    LET fault == tree.node[obj].fault
        all == << FocusCall("setFocus", obj), FocusCall("setNavigatorObject", obj),
                  FocusCall("speakObject", obj) >>
    IN  IF fault = "navigator" THEN [found |-> FALSE, calls |-> SubSeq(all, 1, 2)]
        ELSE IF fault = "speak" THEN [found |-> FALSE, calls |-> all]
        ELSE [found |-> TRUE, calls |-> all]

RECURSIVE FindPass(_, _, _, _, _)
RECURSIVE FindPassChildren(_, _, _, _, _)
\* a search of the tree that applies one test only ("role" or "name")
FindPass(tree, obj, depth, max_depth, test) ==
    IF depth > max_depth THEN NotFound
    ELSE IF (test = "role" /\ RoleHit(tree.node[obj]))
             \/ (test = "name" /\ NameHit(tree.node[obj]))
         THEN FocusOn(tree, obj)
         ELSE FindPassChildren(tree, Children(tree, obj), depth + 1, max_depth, test)

FindPassChildren(tree, kids, depth, max_depth, test) ==
    IF kids = <<>> THEN NotFound
    ELSE LET first == FindPass(tree, Head(kids), depth, max_depth, test)
         IN  IF first.found THEN first
             ELSE LET rest == FindPassChildren(tree, Tail(kids), depth, max_depth, test)
                  IN  [found |-> rest.found, calls |-> first.calls \o rest.calls]

\* a finder that looks for a role match in the whole tree before it accepts a
\* name match
FindRoleThenName(tree, root, depth, max_depth) ==
    LET byRole == FindPass(tree, root, depth, max_depth, "role")
    IN  IF byRole.found THEN byRole
        ELSE LET byName == FindPass(tree, root, depth, max_depth, "name")
             IN  [found |-> byName.found, calls |-> byRole.calls \o byName.calls]

RECURSIVE FindAndFocusResponse(_, _, _, _)
RECURSIVE FindInChildren(_, _, _, _)
\* _find_and_focus_response: the calls made on nodes, in order, and the value
\* returned
FindAndFocusResponse(tree, root, depth, max_depth) ==
    IF depth > max_depth THEN NotFound
    ELSE IF RoleHit(tree.node[root]) \/ NameHit(tree.node[root])
         THEN FocusOn(tree, root)
         ELSE FindInChildren(tree, Children(tree, root), depth + 1, max_depth)

\* "for child in root.children or []": the first child that returns True ends
\* the loop
FindInChildren(tree, kids, depth, max_depth) ==
    IF kids = <<>> THEN NotFound
    ELSE LET first == FindAndFocusResponse(tree, Head(kids), depth, max_depth)
         IN  IF first.found THEN first
             ELSE LET rest == FindInChildren(tree, Tail(kids), depth, max_depth)
                  IN  [found |-> rest.found, calls |-> first.calls \o rest.calls]

\* _focus_response: the calls made for one window
FocusResponse(window) == FindAndFocusResponse(window, Root, 0, FOCUS_MAX_DEPTH).calls

----------------------------------------------------------------------------
(* Bounds and the windows the polling thread may find *)

\* polling threads alive at the same time
MaxThreads == 2

\* calls waiting in the UI thread's queue
MaxQueue == 2

\* nodes below the window's root node
MonitorNodes == 2

\* window objects the lookup may return
MaxWindows == 2

NoThread == 0

NoWindow == "NoWindow"

Tids == 1..MaxThreads

WindowNode == Node(NameClaude, ROLE_WINDOW, 0, "none")

MonitorKinds ==
    { Node(NameThinking, ROLE_STATICTEXT, 0, "none"),
      Node(NameStop, ROLE_STATICTEXT, 0, "none"),
      Node(NameReading, ROLE_STATICTEXT, 1, "none"),
      Node(NameHi, ROLE_PROGRESSBAR, 0, "none"),
      Node(NameHi, ROLE_STATICTEXT, 0, "none"),
      Node(NameEmpty, ROLE_ANIMATION, 0, "none"),
      Node(None, ROLE_STATICTEXT, 2, "none") }

\* a window whose only status text lies below the depth cap of the scan
DeepWindow ==
    [parent |-> [i \in 1..(STATUS_MAX_DEPTH + 2) |-> i - 1],
     node |-> [i \in 1..(STATUS_MAX_DEPTH + 2) |->
                 IF i = STATUS_MAX_DEPTH + 2
                 THEN Node(NameThinking, ROLE_STATICTEXT, 0, "none")
                 ELSE WindowNode]]

MonitorWindows ==
    {t \in Trees(1 + MonitorNodes, MonitorKinds \cup {WindowNode}) :
        /\ t.node[Root] = WindowNode
        /\ \A i \in 2..(1 + MonitorNodes) : t.node[i] # WindowNode}
    \cup {DeepWindow}

\* what _get_current_status returns for the windows
MonitorSnapshots == {GetCurrentStatus(w) : w \in MonitorWindows}

\* the orders in which "for action in new_actions" may visit a set
Orders(S) ==
    {s \in [1..Cardinality(S) -> S] : \A a \in S : \E i \in 1..Cardinality(S) : s[i] = a}

StatusEvent(text) == [kind |-> "status", text |-> text]
ActionEvent(text) == [kind |-> "action", text |-> text]
CompleteEvent(window) == [kind |-> "complete", text |-> None, window |-> window]

\* what an announcement hands to wx.CallAfter: ui.message with its text, or the
\* closure _announce_and_focus, which holds the window of its cycle
CallOf(ev) ==
    IF ev.kind = "complete"
    THEN [call |-> "announce_and_focus", text |-> None, window |-> ev.window]
    ELSE [call |-> "message", text |-> ev.text]

\* the text of _("Response complete")
ResponseComplete ==
    <<"R", "e", "s", "p", "o", "n", "s", "e", " ", "c", "o", "m", "p", "l", "e", "t", "e">>

\* the window objects _get_claude_window may return
WindowIds == 1..MaxWindows

\* what the focus finder meets in a window: a document below the root; an edit
\* field whose setNavigatorObject raises before a group named Response
FocusWindows == <<
    [parent |-> <<0, 1>>,
     node |-> << FocusNode(NameClaude, ROLE_GROUPING, FALSE, "none"),
                 FocusNode(NameHi, ROLE_DOCUMENT, TRUE, "none") >>],
    [parent |-> <<0, 1, 1>>,
     node |-> << FocusNode(NameClaude, ROLE_GROUPING, FALSE, "none"),
                 FocusNode(None, ROLE_EDITABLETEXT, TRUE, "navigator"),
                 FocusNode(NameResponse, ROLE_GROUPING, TRUE, "none") >>] >>

FocusWindow(w) == FocusWindows[((w - 1) % Len(FocusWindows)) + 1]

\* _focus_response on each window
FocusCallsIn == [w \in WindowIds |-> FocusResponse(FocusWindow(w))]

\* ui.message(text)
MessageCall(text) == [call |-> "message", text |-> text]

\* a submitted call when it runs: ui.message, or _announce_and_focus, which
\* speaks the completion phrase and then searches its window
RunCall(c) ==
    IF c.call = "message" THEN <<MessageCall(c.text)>>
    ELSE LET done == FocusCallsIn[c.window]
         IN  <<MessageCall(ResponseComplete)>>
             \o [i \in 1..Len(done) |->
                    [call |-> done[i].call, node |-> done[i].node, window |-> c.window]]

RECURSIVE RunAll(_)
RunAll(calls) ==
    IF calls = <<>> THEN <<>> ELSE RunCall(Head(calls)) \o RunAll(Tail(calls))

\* a dispatch that runs the calls in the thread that submits them
CallDirectly(queue, calls) == [queue |-> queue, ran |-> RunAll(calls)]

\* wx.CallAfter: the calls are put behind the ones already waiting and the
\* caller goes on; it runs none of them
CallAfter(queue, calls) == [queue |-> queue \o calls, ran |-> <<>>]

\* the polling threads that were started and have not left _monitor_loop
LiveThreads == {t \in Tids : pc[t] # "none"}

----------------------------------------------------------------------------
(* StatusMonitor *)

InitMonitor ==
    /\ running = FALSE
    /\ thread = NoThread
    /\ lastStatus = None
    /\ lastActions = {}
    /\ wasGenerating = FALSE
    /\ pc = [t \in Tids |-> "none"]
    /\ ctl = "idle"
    /\ uiQueue = <<>>
    /\ uiCalls = <<>>
    /\ snap = Snapshot(None, {})
    /\ emitted = <<>>
    /\ op = "init"

Init ==
    /\ InitMonitor
    /\ fin = <<>>
    /\ fout = <<>>
    /\ fpc = "none"

\* start() without the test of _running
StartAlways ==
    /\ ctl = "idle"
    /\ \E t \in Tids :
        /\ pc[t] = "none"
        /\ \A u \in Tids : u < t => pc[u] # "none"
        /\ running' = TRUE
        /\ thread' = t
        /\ pc' = [pc EXCEPT ![t] = "check"]
    /\ op' = "start"
    /\ emitted' = <<>>
    /\ uiCalls' = <<>>
    /\ UNCHANGED <<lastStatus, lastActions, wasGenerating, ctl, uiQueue, snap, funVars>>

\* start(): returns at once when _running is set; otherwise sets it and starts
\* a new thread on _monitor_loop
Start ==
    /\ ctl = "idle"
    /\ IF running
       THEN /\ op' = "start_again"
            /\ UNCHANGED <<running, thread, pc>>
       ELSE /\ op' = "start"
            /\ \E t \in Tids :
                  /\ pc[t] = "none"
                  /\ \A u \in Tids : u < t => pc[u] # "none"
                  /\ running' = TRUE
                  /\ thread' = t
                  /\ pc' = [pc EXCEPT ![t] = "check"]
    /\ emitted' = <<>>
    /\ uiCalls' = <<>>
    /\ UNCHANGED <<lastStatus, lastActions, wasGenerating, ctl, uiQueue, snap, funVars>>

\* stop() that also forgets what the last cycle saw
StopResets ==
    /\ ctl = "idle"
    /\ running' = FALSE
    /\ ctl' = IF thread # NoThread THEN "joining" ELSE ctl
    /\ lastStatus' = None
    /\ lastActions' = {}
    /\ wasGenerating' = FALSE
    /\ op' = IF thread # NoThread THEN "stop" ELSE "stop_nothread"
    /\ emitted' = <<>>
    /\ uiCalls' = <<>>
    /\ UNCHANGED <<thread, pc, uiQueue, snap, funVars>>

\* stop() up to the join: clears _running and, when there is a thread, waits
\* for it in join(timeout=2.0)
Stop ==
    /\ ctl = "idle"
    /\ running' = FALSE
    /\ ctl' = IF thread # NoThread THEN "joining" ELSE ctl
    /\ op' = IF thread # NoThread THEN "stop" ELSE "stop_nothread"
    /\ emitted' = <<>>
    /\ uiCalls' = <<>>
    /\ UNCHANGED <<thread, lastStatus, lastActions, wasGenerating, pc, uiQueue,
                   snap, funVars>>

\* the join of stop() returns, because the thread ended or because the timeout
\* expired, and stop() drops the thread
JoinReturn ==
    /\ ctl = "joining"
    /\ thread' = NoThread
    /\ ctl' = "idle"
    /\ op' = IF pc[thread] = "none" THEN "joined" ELSE "join_timeout"
    /\ emitted' = <<>>
    /\ uiCalls' = <<>>
    /\ UNCHANGED <<running, lastStatus, lastActions, wasGenerating, pc, uiQueue,
                   snap, funVars>>

\* "while self._running:"
LoopCheck(t) ==
    /\ pc[t] = "check"
    /\ pc' = [pc EXCEPT ![t] = IF running THEN "body" ELSE "none"]
    /\ op' = "check"
    /\ emitted' = <<>>
    /\ uiCalls' = <<>>
    /\ UNCHANGED <<running, thread, lastStatus, lastActions, wasGenerating, ctl,
                   uiQueue, snap, funVars>>

\* "if current_status and current_status != self._last_status"
StatusChanged(current_status, last_status) ==
    Truthy(current_status) /\ current_status # last_status

\* the set difference with its operands swapped
NewActionsSwapped(current_actions, last_actions) == last_actions \ current_actions

\* "new_actions = current_actions - self._last_actions"
NewActions(current_actions, last_actions) == current_actions \ last_actions

\* the completion test without the memory of the previous cycle
CompletedWheneverIdle(was_generating, is_generating) == ~is_generating

\* "if self._was_generating and not is_generating"
GenerationJustCompleted(was_generating, is_generating) ==
    was_generating /\ ~is_generating

\* the window objects a cycle may hold; the object is kept only by a cycle that
\* calls _on_generation_complete, any other cycle drops it at its end
CapturedWindows(completed) == IF completed THEN WindowIds ELSE {1}

\* the announcements of one cycle, in the order the loop requests them
CycleEvents(say, status, order, completed, window) ==
    (IF say THEN <<StatusEvent(status)>> ELSE <<>>)
    \o [i \in 1..Len(order) |-> ActionEvent(order[i])]
    \o (IF completed THEN <<CompleteEvent(window)>> ELSE <<>>)

\* one iteration of _monitor_loop in which _get_claude_window finds the window,
\* up to and including the sleep. The iteration is one step: the fields it reads
\* and writes are touched by polling threads only, and start() and stop() touch
\* none of them. delivered: the announcements whose wx.CallAfter did not raise
\* (a raise is logged and swallowed).
PollFound(t) ==
    /\ pc[t] = "body"
    /\ \E s \in MonitorSnapshots :
        LET is_generating == IsGenerating(s.mainStatus, s.actions)
            say == StatusChanged(s.mainStatus, lastStatus)
            new_actions == NewActions(s.actions, lastActions)
            completed == GenerationJustCompleted(wasGenerating, is_generating)
        IN  \E order \in Orders(new_actions), window \in CapturedWindows(completed) :
              LET evs == CycleEvents(say, s.mainStatus, order, completed, window)
              IN  \E delivered \in SUBSET (1..Len(evs)) :
                    LET calls == [i \in 1..Len(evs) |-> CallOf(evs[i])]
                        sent == SelectSeq([i \in 1..Len(evs) |-> i],
                                          LAMBDA i : i \in delivered)
                    IN  /\ Len(uiQueue) + Len(sent) <= MaxQueue
                        /\ \E after \in {CallAfter(uiQueue,
                                          [i \in 1..Len(sent) |-> calls[sent[i]]])} :
                              /\ uiQueue' = after.queue
                              /\ uiCalls' = after.ran
                        /\ emitted' = evs
                        /\ lastStatus' = IF say THEN s.mainStatus ELSE lastStatus
                        /\ lastActions' = s.actions
                        /\ wasGenerating' = is_generating
                        /\ snap' = s
    /\ pc' = [pc EXCEPT ![t] = "check"]
    /\ op' = "poll"
    /\ UNCHANGED <<running, thread, ctl, funVars>>

\* an iteration whose exception leaves the thread
PollRaiseKills(t) ==
    /\ pc[t] = "body"
    /\ pc' = [pc EXCEPT ![t] = "none"]
    /\ op' = "raise"
    /\ emitted' = <<>>
    /\ uiCalls' = <<>>
    /\ UNCHANGED <<running, thread, lastStatus, lastActions, wasGenerating, ctl,
                   uiQueue, snap, funVars>>

\* one iteration that raises: "except Exception" logs, the thread sleeps and
\* goes back to the test of _running. The calls of the body catch their own
\* exceptions and the statements after the snapshot work on str, set and bool
\* values, so the exception comes before any field is written ("if window").
PollRaise(t) ==
    /\ pc[t] = "body"
    /\ pc' = [pc EXCEPT ![t] = "check"]
    /\ op' = "raise"
    /\ emitted' = <<>>
    /\ uiCalls' = <<>>
    /\ UNCHANGED <<running, thread, lastStatus, lastActions, wasGenerating, ctl,
                   uiQueue, snap, funVars>>

\* an iteration without a window that takes the generation for finished
PollAbsentResets(t) ==
    /\ pc[t] = "body"
    /\ pc' = [pc EXCEPT ![t] = "check"]
    /\ op' = "absent"
    /\ emitted' = <<>>
    /\ uiCalls' = <<>>
    /\ wasGenerating' = FALSE
    /\ UNCHANGED <<running, thread, lastStatus, lastActions, ctl, uiQueue, snap, funVars>>

\* one iteration in which _get_claude_window returns None: no Claude window is
\* there, or the lookup raised and the exception was caught inside it
PollAbsent(t) ==
    /\ pc[t] = "body"
    /\ pc' = [pc EXCEPT ![t] = "check"]
    /\ op' = "absent"
    /\ emitted' = <<>>
    /\ uiCalls' = <<>>
    /\ UNCHANGED <<running, thread, lastStatus, lastActions, wasGenerating, ctl,
                   uiQueue, snap, funVars>>

\* a UI thread that runs the call submitted last
UIRunNewestFirst ==
    /\ ctl = "idle"
    /\ uiQueue # <<>>
    /\ uiQueue' = SubSeq(uiQueue, 1, Len(uiQueue) - 1)
    /\ uiCalls' = RunCall(uiQueue[Len(uiQueue)])
    /\ op' = "ui"
    /\ emitted' = <<>>
    /\ UNCHANGED <<running, thread, lastStatus, lastActions, wasGenerating, pc,
                   ctl, snap, funVars>>

\* the UI thread runs the oldest call submitted with wx.CallAfter; it is the
\* thread that calls stop(), so it runs none while stop() waits in join
UIRun ==
    /\ ctl = "idle"
    /\ uiQueue # <<>>
    /\ uiQueue' = Tail(uiQueue)
    /\ uiCalls' = RunCall(Head(uiQueue))
    /\ op' = "ui"
    /\ emitted' = <<>>
    /\ UNCHANGED <<running, thread, lastStatus, lastActions, wasGenerating, pc,
                   ctl, snap, funVars>>

Next ==
    \/ Start
    \/ Stop
    \/ JoinReturn
    \/ UIRun
    \/ \E t \in Tids : LoopCheck(t)
    \/ \E t \in Tids : PollFound(t)
    \/ \E t \in Tids : PollAbsent(t)
    \/ \E t \in Tids : PollRaise(t)

Spec == Init /\ [][Next]_vars

----------------------------------------------------------------------------
(* Properties of the monitor loop *)

EventsOfKind(evs, kind) == SelectSeq(evs, LAMBDA e : e.kind = kind)

TextsOf(evs) == {evs[i].text : i \in 1..Len(evs)}

\* C1: in a poll cycle that finds the window, _on_generation_complete is called
\* if and only if _was_generating held when the cycle began and the cycle's
\* snapshot is not generating; it is called once, and only when the snapshot of
\* the previously processed cycle was generating (one call per transition from
\* generating to idle, none before anything was generating).
C1_CompleteIffTransition ==
    [][op' = "poll" =>
        LET completions == EventsOfKind(emitted', "complete")
            is_generating == IsGenerating(snap'.mainStatus, snap'.actions)
        IN  /\ (Len(completions) > 0) <=> (wasGenerating /\ ~is_generating)
            /\ Len(completions) <= 1
            /\ Len(completions) > 0 => IsGenerating(snap.mainStatus, snap.actions)
            /\ (IsGenerating(snap.mainStatus, snap.actions) /\ ~is_generating)
                   => Len(completions) = 1
      ]_vars

\* a cycle has just called _on_generation_complete
C1_Witness ==
    /\ op = "poll"
    /\ Len(EventsOfKind(emitted, "complete")) = 1
    /\ ~wasGenerating

\* C2 as claimed: in a poll cycle that finds the window a status announcement is
\* requested if and only if the cycle's mainStatus differs from the mainStatus
\* of the previously processed cycle, a change to absent included.
C2_StatusChangedIffDiffers ==
    [][op' = "poll" =>
        ((Len(EventsOfKind(emitted', "status")) > 0)
            <=> (snap'.mainStatus # snap.mainStatus))
      ]_vars

\* C3 as claimed: after a poll cycle that finds the window, _last_status is the
\* mainStatus of the snapshot just processed, absent included.
C3_LastStatusIsSnapshotStatus ==
    op = "poll" => lastStatus = snap.mainStatus

\* C4: in a poll cycle that finds the window, an action announcement is requested
\* exactly once for every string in the cycle's actions that was not among the
\* actions of the previously processed cycle, and for no other string.
C4_ActionStartedExactlyNew ==
    [][op' = "poll" =>
        LET started == EventsOfKind(emitted', "action")
        IN  /\ TextsOf(started) = snap'.actions \ snap.actions
            /\ Len(started) = Cardinality(snap'.actions \ snap.actions)
            /\ snap.actions = lastActions
      ]_vars

\* an action joined one that was already there: only the new one is announced
C4_Witness ==
    /\ op = "poll"
    /\ Cardinality(snap.actions) = 2
    /\ Len(EventsOfKind(emitted, "action")) = 1

\* C5: start() called while _running is set (no stop() since the last start())
\* starts no thread and changes no state; start() called otherwise adds exactly
\* one polling thread.
C5_StartTwiceOneThread ==
    [][op' \in {"start", "start_again"} =>
        IF running
        THEN UNCHANGED <<running, thread, pc, lastStatus, lastActions,
                         wasGenerating, ctl, uiQueue, snap>>
        ELSE /\ Cardinality(LiveThreads') = Cardinality(LiveThreads) + 1
             /\ thread' \in LiveThreads' \ LiveThreads
      ]_vars

\* start() was called a second time and one polling thread exists
C5_Witness ==
    /\ op = "start_again"
    /\ running
    /\ Cardinality(LiveThreads) = 1

\* C6: stop() called when there is no thread (before any start(), or after a
\* stop()) attempts no join and changes nothing: _running was and stays false,
\* _thread stays absent, and _last_status, _last_actions and _was_generating
\* keep their values.
C6_StopWithoutThreadNoEffect ==
    [][(op' \in {"stop", "stop_nothread"} /\ thread = NoThread) =>
        /\ ~running /\ ~running'
        /\ thread' = NoThread
        /\ ctl' = "idle"
        /\ UNCHANGED <<lastStatus, lastActions, wasGenerating, pc>>
      ]_vars

\* a second stop(), after cycles that stored a status
C6_Witness ==
    /\ op = "stop_nothread"
    /\ lastStatus # None
    /\ thread = NoThread
    /\ ~running

\* C11: an exception raised inside one iteration of _monitor_loop stays in
\* that iteration: the thread goes on to the next test of _running, and a
\* thread leaves the loop only at that test, when _running is false. The
\* exception changes nothing outside the iteration.
C11_ExceptionStaysInIteration ==
    [][/\ \A t \in Tids :
            /\ pc[t] = "body" => pc'[t] \in {"body", "check"}
            /\ (pc[t] # "none" /\ pc'[t] = "none") => (pc[t] = "check" /\ ~running)
       /\ op' = "raise" => UNCHANGED <<running, thread, ctl>>
      ]_vars

\* an iteration has raised and its thread is back at the test of _running
C11_Witness ==
    /\ op = "raise"
    /\ running
    /\ thread # NoThread
    /\ pc[thread] = "check"

\* C13 as claimed: a polling thread that stop() has stopped (stop() is waiting
\* for it in join, or has given it up) leaves the loop at its next test of
\* _running: it completes at most the iteration it was in and starts no other.
C13_StoppedThreadExitsAtNextCheck ==
    [][\A t \in Tids :
          (/\ pc[t] = "check"
           /\ (t # thread \/ ctl = "joining")
           /\ pc'[t] # "check") => pc'[t] = "none"
      ]_vars

\* C14 as claimed: whatever start() and stop() calls were made, at most one
\* thread is in _monitor_loop.
C14_AtMostOneLoopThread ==
    Cardinality(LiveThreads) <= 1

\* what the specification calls generating, for one snapshot
GeneratingIn(s) ==
    \/ /\ s.mainStatus # None
       /\ \E k \in 1..Len(GENERATING_KEYWORDS) :
             Contains(GENERATING_KEYWORDS[k], Lower(s.mainStatus))
    \/ s.actions # {}

\* C15: after a poll cycle that finds the window, _was_generating is what the
\* cycle's own snapshot gives: true iff its mainStatus contains thinking,
\* generating, typing, processing or stop, or its action set is not empty.
C15_WasGeneratingFromSnapshotAlone ==
    op = "poll" => (wasGenerating <=> GeneratingIn(snap))

\* generating by its actions alone, while an older status is still stored
C15_Witness ==
    /\ op = "poll"
    /\ wasGenerating
    /\ snap.mainStatus = None
    /\ snap.actions # {}
    /\ lastStatus # None

\* C18: a poll cycle that finds no window requests no announcement and leaves
\* _last_status, _last_actions, _was_generating and the submitted calls as they
\* were; so the first cycle that finds the window idle again, with
\* _was_generating still set, calls _on_generation_complete.
C18_AbsentCycleKeepsState ==
    [][/\ op' = "absent" =>
            /\ emitted' = <<>>
            /\ uiCalls' = <<>>
            /\ UNCHANGED <<lastStatus, lastActions, wasGenerating, uiQueue, snap>>
       /\ (op = "absent" /\ op' = "poll" /\ wasGenerating
              /\ ~GeneratingIn(snap')) =>
            Len(EventsOfKind(emitted', "complete")) = 1
      ]_vars

\* the window went away while a generation was going on
C18_Witness ==
    /\ op = "absent"
    /\ wasGenerating
    /\ lastStatus # None

\* C12: a speaking or focusing call (ui.message, setFocus,
\* api.setNavigatorObject, speech.speakObject) is made only by the step in which
\* the UI thread runs a call submitted with wx.CallAfter; a step of a polling
\* thread makes none, it only lengthens the queue of submitted calls.
C12_MutatingCallsOnUIThreadOnly ==
    [][/\ uiCalls' # <<>> => op' = "ui"
       /\ op' \in {"poll", "raise", "absent", "check"} =>
            /\ uiCalls' = <<>>
            /\ Len(uiQueue') >= Len(uiQueue)
            /\ SubSeq(uiQueue', 1, Len(uiQueue)) = uiQueue
      ]_vars

\* the UI thread has set focus while a polling thread is inside an iteration
C12_Witness ==
    /\ op = "ui"
    /\ \E i \in 1..Len(uiCalls) : uiCalls[i].call = "setFocus"
    /\ \E t \in Tids : pc[t] = "body"

\* the calls a poll cycle may have added to the queue: those of its
\* announcements, in the order of the cycle, without the ones whose wx.CallAfter
\* raised
SubmittedBy(evs) ==
    {SelectSeq([i \in 1..Len(evs) |-> CallOf(evs[i])], LAMBDA c : c \in kept) :
        kept \in SUBSET {CallOf(evs[i]) : i \in 1..Len(evs)}}

\* C20: the UI thread runs the submitted calls oldest first. A cycle that
\* detects completion submits _announce_and_focus after the announcements of
\* that cycle, so they are spoken before the completion phrase; the phrase is
\* spoken before any focusing call, and the focusing calls are made on the
\* window of the cycle that submitted the closure.
C20_SubmissionOrderAndCapturedWindow ==
    [][/\ op' = "poll" =>
            /\ \A i \in 1..Len(emitted') :
                  emitted'[i].kind = "complete" => i = Len(emitted')
            /\ \E added \in SubmittedBy(emitted') : uiQueue' = uiQueue \o added
       /\ op' = "ui" =>
            /\ uiQueue # <<>>
            /\ uiQueue' = Tail(uiQueue)
            /\ IF Head(uiQueue).call = "message"
               THEN uiCalls' = <<MessageCall(Head(uiQueue).text)>>
               ELSE /\ uiCalls'[1] = MessageCall(ResponseComplete)
                    /\ \A i \in 2..Len(uiCalls') :
                          /\ uiCalls'[i].call \in
                                {"setFocus", "setNavigatorObject", "speakObject"}
                          /\ uiCalls'[i].window = Head(uiQueue).window
       /\ op' \notin {"poll", "ui"} => uiQueue' = uiQueue
      ]_vars

\* the completion phrase was spoken and focus set in the second window, while
\* a later call is still waiting
C20_Witness ==
    /\ op = "ui"
    /\ Len(uiCalls) > 1
    /\ uiCalls[1] = MessageCall(ResponseComplete)
    /\ uiCalls[2].call = "setFocus"
    /\ uiCalls[2].window = 2
    /\ uiQueue # <<>>

----------------------------------------------------------------------------
(* _get_current_status on its own: the names read from a candidate list *)

\* candidates in one list
MaxCandidates == 3

CandidateNames ==
    {NameThinking, NameStop, NameTyping, NameReading, NameHi, NameEmpty, None,
     RaisesName}

CandidateLists == UNION {[1..n -> CandidateNames] : n \in 0..MaxCandidates}

InitClassify ==
    /\ InitMonitor
    /\ fin \in CandidateLists
    /\ fout = Snapshot(None, {})
    /\ fpc = "input"

ClassifyStep ==
    /\ fpc = "input"
    /\ fout' = Classify(fin)
    /\ fpc' = "done"
    /\ UNCHANGED <<fin, monitorVars>>

NextClassify == ClassifyStep

SpecClassify == InitClassify /\ [][NextClassify]_vars

\* the positions of the candidates whose name carries a generation keyword
MainIndexes(names) ==
    {i \in 1..Len(names) :
        /\ names[i] # RaisesName
        /\ Truthy(names[i])
        /\ AnyKeywordIn(MAIN_STATUS_KEYWORDS, Lower(names[i]))}

Min(S) == CHOOSE x \in S : \A y \in S : x <= y

Max(S) == CHOOSE x \in S : \A y \in S : x >= y

TwoMainCandidates ==
    /\ Len(fin) = 2
    /\ MainIndexes(fin) = {1, 2}
    /\ fin[1] # fin[2]

C9_MainStatusNotAnAction ==
    fpc = "done" => fout.mainStatus \notin fout.actions

\* the candidate that became the main status occurs twice, beside an action
C9_Witness ==
    /\ fpc = "done"
    /\ fout.mainStatus # None
    /\ fout.actions # {}
    /\ \E i, j \in 1..Len(fin) : i < j /\ fin[i] = fout.mainStatus /\ fin[j] = fin[i]

----------------------------------------------------------------------------
(* _traverse_for_status on its own: any tree, any max_depth *)

\* nodes of a scanned tree
ScanNodes == 4

\* largest max_depth tried
MaxScanDepth == 2

ScanKinds ==
    { Node(NameStop, ROLE_STATICTEXT, 0, "none"),
      Node(NameHi, ROLE_STATICTEXT, 0, "none"),
      Node(None, ROLE_PROGRESSBAR, 1, "none"),
      Node(NameReading, ROLE_STATICTEXT, 0, "children"),
      Node(NameThinking, ROLE_STATICTEXT, 0, "name") }

InitScan ==
    /\ InitMonitor
    /\ fin \in [tree : Trees(ScanNodes, ScanKinds), max_depth : 0..MaxScanDepth]
    /\ fout = <<>>
    /\ fpc = "input"

ScanStep ==
    /\ fpc = "input"
    /\ fout' = TraverseForStatus(fin.tree, Root, 0, fin.max_depth)
    /\ fpc' = "done"
    /\ UNCHANGED <<fin, monitorVars>>

NextScan == ScanStep

SpecScan == InitScan /\ [][NextScan]_vars

RECURSIVE Reachable(_, _)
\* the scan can walk down to n: no node above it fails when it is read
Reachable(tree, n) ==
    IF tree.parent[n] = 0 THEN TRUE
    ELSE /\ tree.node[tree.parent[n]].fault = "none"
         /\ Reachable(tree, tree.parent[n])

\* n passes one of the three tests of the scan
IsCandidate(tree, n) ==
    LET nd == tree.node[n]
    IN  /\ nd.fault # "name"
        /\ \/ AnyKeywordIn(ACTION_KEYWORDS, Lower(NameOrEmpty(nd.name)))
           \/ nd.role \in {ROLE_PROGRESSBAR, ROLE_ANIMATION}
           \/ nd.live > 0

ResultSet == {fout[i] : i \in 1..Len(fout)}

\* C10: a scan started at depth 0 returns no node deeper than max_depth below
\* the root, and it does return the candidates at depth exactly max_depth that
\* it can walk down to.
C10_ScanDepthBounded ==
    fpc = "done" =>
        /\ \A n \in ResultSet : Depth(fin.tree, n) <= fin.max_depth
        /\ \A n \in NodesOf(fin.tree) :
              (/\ Depth(fin.tree, n) = fin.max_depth
               /\ Reachable(fin.tree, n)
               /\ IsCandidate(fin.tree, n)) => n \in ResultSet

\* a keyword-bearing node one level below the cap was left out, and a node at
\* the cap was returned
C10_Witness ==
    /\ fpc = "done"
    /\ \E n \in NodesOf(fin.tree) :
          /\ Depth(fin.tree, n) = fin.max_depth + 1
          /\ Reachable(fin.tree, n)
          /\ fin.tree.node[n].name = NameStop
          /\ n \notin ResultSet
    /\ \E n \in ResultSet : Depth(fin.tree, n) = fin.max_depth

RECURSIVE ChildrenReadable(_, _)
\* n can be reached from the root through children lists that can be read
ChildrenReadable(tree, n) ==
    IF tree.parent[n] = 0 THEN TRUE
    ELSE /\ tree.node[tree.parent[n]].fault # "children"
         /\ ChildrenReadable(tree, tree.parent[n])

\* C16 as claimed: a node that fails when it is read costs the scan that node
\* only: every other node within max_depth that can be reached through
\* readable children lists and passes a test of the scan is returned.
C16_FailureCostsOneNodeOnly ==
    fpc = "done" =>
        \A n \in NodesOf(fin.tree) :
            (/\ Depth(fin.tree, n) <= fin.max_depth
             /\ ChildrenReadable(fin.tree, n)
             /\ fin.tree.node[n].fault = "none"
             /\ IsCandidate(fin.tree, n)) => n \in ResultSet

----------------------------------------------------------------------------
(* _find_and_focus_response on its own: any tree, any max_depth *)

\* nodes of a tree searched for the response
FocusNodes == 4

\* largest max_depth tried
MaxFocusDepth == 2

FocusKinds ==
    { FocusNode(NameHi, ROLE_GROUPING, FALSE, "none"),
      FocusNode(NameHi, ROLE_DOCUMENT, TRUE, "none"),
      FocusNode(NameResponse, ROLE_GROUPING, TRUE, "none"),
      FocusNode(None, ROLE_EDITABLETEXT, TRUE, "navigator"),
      FocusNode(NameMessages, ROLE_DOCUMENT, FALSE, "none") }

InitFocus ==
    /\ InitMonitor
    /\ fin \in [tree : Trees(FocusNodes, FocusKinds), max_depth : 0..MaxFocusDepth]
    /\ fout = <<>>
    /\ fpc = "input"

FocusStep ==
    /\ fpc = "input"
    /\ fout' = FindAndFocusResponse(fin.tree, Root, 0, fin.max_depth)
    /\ fpc' = "done"
    /\ UNCHANGED <<fin, monitorVars>>

NextFocus == FocusStep

SpecFocus == InitFocus /\ [][NextFocus]_vars

RECURSIVE PreOrder(_, _)
RECURSIVE PreOrderOfAll(_, _)
\* the nodes of the subtree of n, parents before children, children in order
PreOrder(tree, n) == <<n>> \o PreOrderOfAll(tree, Children(tree, n))

PreOrderOfAll(tree, kids) ==
    IF kids = <<>> THEN <<>>
    ELSE PreOrder(tree, Head(kids)) \o PreOrderOfAll(tree, Tail(kids))

\* the nodes within max_depth that are focusable and have the role or the name,
\* in pre-order
FocusMatches ==
    SelectSeq(PreOrder(fin.tree, Root),
              LAMBDA n : /\ Depth(fin.tree, n) <= fin.max_depth
                         /\ (RoleHit(fin.tree.node[n]) \/ NameHit(fin.tree.node[n])))

\* the nodes within max_depth that are focusable and have the role
RoleMatches == SelectSeq(FocusMatches, LAMBDA n : RoleHit(fin.tree.node[n]))

\* the nodes setFocus was called on, in order
FocusedNodes ==
    LET sf == SelectSeq(fout.calls, LAMBDA c : c.call = "setFocus")
    IN  [i \in 1..Len(sf) |-> sf[i].node]

\* C17 as claimed: when a focusable node with role document or editable text
\* exists within max_depth, the node the finder sets focus on is such a node.
C17_RolePreferredInWholeTree ==
    (fpc = "done" /\ RoleMatches # <<>>) =>
        /\ FocusedNodes # <<>>
        /\ RoleHit(fin.tree.node[FocusedNodes[1]])

\* C17 amended: the role test comes before the name test at one node only. The
\* finder makes one pre-order pass and sets focus on the first node within
\* max_depth that is focusable and has the role or the name, whichever it is.
C17_FirstMatchOfEitherKind ==
    fpc = "done" =>
        IF FocusMatches = <<>> THEN fout.calls = <<>>
        ELSE /\ fout.calls # <<>>
             /\ fout.calls[1] = FocusCall("setFocus", FocusMatches[1])

\* focus went to a node that has the name only, though a focusable document
\* comes later in the pass
C17_Witness ==
    /\ fpc = "done"
    /\ fout.found
    /\ RoleMatches # <<>>
    /\ Len(FocusedNodes) = 1
    /\ ~RoleHit(fin.tree.node[FocusedNodes[1]])

\* C19 as claimed: one search calls setFocus on at most one node, the first
\* match in pre-order, and returns True exactly when it called setFocus, also
\* when setNavigatorObject or speakObject raises afterwards; without a match it
\* makes no call and returns False.
C19_OneFocusAndTruthfulResult ==
    fpc = "done" =>
        /\ Len(FocusedNodes) <= 1
        /\ fout.found <=> (FocusedNodes # <<>>)
        /\ FocusedNodes # <<>> => FocusedNodes[1] = FocusMatches[1]
        /\ FocusMatches = <<>> => (fout.calls = <<>> /\ ~fout.found)

====
